---- MODULE Spec2Model ----
(***************************************************************************)
(* Model of inferlib/issues.py: the acceptance policy (_should_report and  *)
(* its csv/json front ends), the filter + sort + rewrite pipelines         *)
(* clean_csv and clean_json, and the text reporter print_and_save_errors.  *)
(*                                                                         *)
(* Representation.  File names and the csv "line" column are Python        *)
(* strings whose ORDER or DIGITS matter, so they are sequences of          *)
(* character codes; kinds, types, tags and bucket codes are only compared  *)
(* for equality and are TLA+ strings.  A report file is the sequence of    *)
(* its rows (csv: lists of columns, the header first; json: objects).  The *)
(* csv qualifier_tags column is an XML text: it is represented by whether  *)
(* it is well formed and, when it is, by its element tree.                 *)
(***************************************************************************)
EXTENDS Integers, Sequences, FiniteSets, TLC

\* ------------------------------------------------------------------ bounds
\* Longest report body (rows after the header) of the ordering family.
MaxRows == 3
\* Longest report body of the policy family (rows rich in kind/type/bucket).
MaxPolicyRows == 1

\* --------------------------------------------------------------- constants
ISSUE_KIND_ERROR == "ERROR"
ISSUE_KIND_WARNING == "WARNING"
ISSUE_KIND_INFO == "INFO"

ISSUE_TYPES ==
    << "ASSERTION_FAILURE", "BAD_POINTER_COMPARISON", "CONTEXT_LEAK",
       "MEMORY_LEAK", "RESOURCE_LEAK", "RETAIN_CYCLE",
       "STRONG_DELEGATE_WARNING",
       "TAINTED_VALUE_REACHING_SENSITIVE_FUNCTION",
       "IVAR_NOT_NULL_CHECKED", "NULL_DEREFERENCE",
       "PARAMETER_NOT_NULL_CHECKED", "PREMATURE_NIL_TERMINATION_ARGUMENT" >>

NULL_STYLE_ISSUE_TYPES ==
    << "IVAR_NOT_NULL_CHECKED", "NULL_DEREFERENCE",
       "PARAMETER_NOT_NULL_CHECKED", "PREMATURE_NIL_TERMINATION_ARGUMENT" >>

QUALIFIER_TAGS == "qualifier_tags"
BUCKET_TAGS == "bucket"

\* config.ANALYZER_*: the analyzer identifiers of the config module.
ANALYZER_ERADICATE == "eradicate"
ANALYZER_CHECKERS == "checkers"
ANALYZER_TRACING == "tracing"
ANALYZER_INFER == "infer"
ANALYZER_CAPTURE == "capture"

\* Python's None where a string may stand (the text of an empty XML element).
None == "<None>"
\* A file with the given content, and a path at which there is no file.
File(content) == [exists |-> TRUE, content |-> content]
NoFile == [exists |-> FALSE, content |-> <<>>]
\* What a call has returned: nothing yet, None, or a list of rows.
NotReturned == [returned |-> FALSE, none |-> FALSE, rows |-> <<>>]
ReturnNone == [returned |-> TRUE, none |-> TRUE, rows |-> <<>>]
ReturnRows(rows) == [returned |-> TRUE, none |-> FALSE, rows |-> rows]

\* ------------------------------------------------------------ Python basics
\* x in list
In(x, list) == \E i \in DOMAIN list : list[i] = x

\* s1 < s2 on Python strings: lexicographic on the character codes, a proper
\* prefix is smaller.
RECURSIVE str_lt(_, _)
str_lt(s1, s2) ==
    IF s2 = <<>> THEN FALSE
    ELSE IF s1 = <<>> THEN TRUE
    ELSE IF Head(s1) # Head(s2) THEN Head(s1) < Head(s2)
    ELSE str_lt(Tail(s1), Tail(s2))

\* int(s) for a string of decimal digits (codes 48..57).
RECURSIVE int(_)
int(s) ==
    IF s = <<>> THEN 0
    ELSE 10 * int(SubSeq(s, 1, Len(s) - 1)) + (s[Len(s)] - 48)

\* str.lower() on the issue kinds.
lower(kind) ==
    CASE kind = "ERROR" -> "error"
      [] kind = "WARNING" -> "warning"
      [] kind = "INFO" -> "info"
      [] OTHER -> kind

\* ------------------------------------------------------- acceptance policy
\* A mutated rule order: the null-style bucket gate is skipped.
_should_report_no_bucket_gate(analyzer, error_kind, error_type, error_bucket) ==
    IF In(analyzer, <<ANALYZER_ERADICATE, ANALYZER_CHECKERS, ANALYZER_TRACING>>)
    THEN TRUE
    ELSE IF ~In(error_kind, <<ISSUE_KIND_ERROR, ISSUE_KIND_WARNING>>) THEN FALSE
    ELSE IF error_type = "" THEN FALSE
    ELSE In(error_type, ISSUE_TYPES)

_should_report(analyzer, error_kind, error_type, error_bucket) ==
    LET analyzers_whitelist ==
            <<ANALYZER_ERADICATE, ANALYZER_CHECKERS, ANALYZER_TRACING>>
        error_kinds == <<ISSUE_KIND_ERROR, ISSUE_KIND_WARNING>>
        null_style_buckets == <<"B1", "B2">>
    IN  IF In(analyzer, analyzers_whitelist) THEN TRUE
        ELSE IF ~In(error_kind, error_kinds) THEN FALSE
        ELSE IF error_type = "" THEN FALSE
        ELSE IF In(error_type, NULL_STYLE_ISSUE_TYPES)
        THEN In(error_bucket, null_style_buckets)
        ELSE In(error_type, ISSUE_TYPES)

\* ---- the csv qualifier_tags column and xml.etree.ElementTree
\* A text that is not well-formed XML (the empty text included).
XmlMalformed == [wf |-> FALSE, tag |-> "", children |-> <<>>]
\* The text of a well-formed element with the given children.
XmlElement(tag, children) == [wf |-> TRUE, tag |-> tag, children |-> children]
XmlChild(tag, text) == [tag |-> tag, text |-> text]

\* ET.fromstring(text): the root element, or ParseError raised.
ET_fromstring(text) ==
    IF text.wf THEN [exc |-> "none", root |-> text]
    ELSE [exc |-> "ParseError", root |-> text]

\* element.find(tag): the first direct child with that tag, as <<child>>, or
\* <<>> for None.
RECURSIVE ET_find(_, _)
ET_find(children, tag) ==
    IF children = <<>> THEN <<>>
    ELSE IF Head(children).tag = tag THEN <<Head(children)>>
    ELSE ET_find(Tail(children), tag)

\* A mutated extractor: the root tag is not compared with QUALIFIER_TAGS.
csv_bucket_any_root(row) ==
    LET parsed == ET_fromstring(row.qualifier_tags)
    IN  IF parsed.exc = "ParseError" THEN [exc |-> "none", val |-> ""]
        ELSE LET bucket == ET_find(parsed.root.children, BUCKET_TAGS)
             IN  IF bucket # <<>> THEN [exc |-> "none", val |-> bucket[1].text]
                 ELSE [exc |-> "none", val |-> ""]

\* The try block of _should_report_csv: error_bucket after it, and the
\* exception that leaves it (none: ParseError is caught).
csv_bucket(row) ==
    LET parsed == ET_fromstring(row.qualifier_tags)
    IN  IF parsed.exc = "ParseError" THEN [exc |-> "none", val |-> ""]
        ELSE IF parsed.root.tag = QUALIFIER_TAGS
        THEN LET bucket == ET_find(parsed.root.children, BUCKET_TAGS)
             IN  IF bucket # <<>> THEN [exc |-> "none", val |-> bucket[1].text]
                 ELSE [exc |-> "none", val |-> ""]
        ELSE [exc |-> "none", val |-> ""]

\* The outcome of a call: the exception raised ("none": it returned) and
\* the value returned.
_should_report_csv(analyzer, row) ==
    LET error_kind == row.kind
        error_type == row.type
        error_bucket == csv_bucket(row)
    IN  IF error_bucket.exc # "none"
        THEN [exc |-> error_bucket.exc, val |-> FALSE]
        ELSE [exc |-> "none",
              val |-> _should_report(analyzer, error_kind, error_type,
                                     error_bucket.val)]

\* The for loop of _should_report_json: the value of the first bucket tag.
RECURSIVE json_bucket(_)
json_bucket(qualifier_tags) ==
    IF qualifier_tags = <<>> THEN ""
    ELSE IF Head(qualifier_tags).tag = BUCKET_TAGS
    THEN Head(qualifier_tags).value
    ELSE json_bucket(Tail(qualifier_tags))

_should_report_json(analyzer, row) ==
    LET error_kind == row.kind
        error_type == row.bug_type
        error_bucket == json_bucket(row.qualifier_tags)
    IN  _should_report(analyzer, error_kind, error_type, error_bucket)

\* ------------------------------------------------------------------- state
VARIABLES
    disk,             \* the paths at which os.path.isfile holds
    fmt,              \* the format of the report file: "csv" or "json"
    orig,             \* the report file as it was handed over
    report,           \* the content of the report file (its rows)
    args,             \* args of the clean_* call: analyzer, no_filtering
    pc,               \* the position of the running call
    collected_rows,   \* the local collected_rows of clean_*
    tmp,              \* the temporary file of clean_*
    ret,              \* what clean_* returned
    text_errors_list, \* the local text_errors_list of print_and_save_errors
    bugs_out,         \* the file print_and_save_errors writes
    stdout,           \* the lines printed on standard output
    call              \* the policy call made and its outcome

vars ==
    << disk, fmt, orig, report, args, pc, collected_rows, tmp, ret,
       text_errors_list, bugs_out, stdout, call >>

\* A mutated check: every path counts as a file.
os_path_isfile_always(filename) == TRUE

os_path_isfile(filename) == filename \in disk

\* ------------------------------------------------------------------ sorter
_compare_issues(filename_1, line_1, filename_2, line_2) ==
    IF str_lt(filename_1, filename_2) THEN -1
    ELSE IF str_lt(filename_2, filename_1) THEN 1
    ELSE line_1 - line_2

_compare_csv_rows(row_1, row_2) ==
    LET filename_1 == row_1.filename
        filename_2 == row_2.filename
        line_1 == int(row_1.line)
        line_2 == int(row_2.line)
    IN  _compare_issues(filename_1, line_1, filename_2, line_2)

_compare_json_rows(row_1, row_2) ==
    LET filename_1 == row_1.file
        filename_2 == row_2.file
        line_1 == row_1.line
        line_2 == row_2.line
    IN  _compare_issues(filename_1, line_1, filename_2, line_2)

\* The cmp= argument of sorted, by the format of the rows.
cmp(f, row_1, row_2) ==
    IF f = "csv" THEN _compare_csv_rows(row_1, row_2)
    ELSE _compare_json_rows(row_1, row_2)

\* A mutated search: the pivot goes before the elements it is equal to.
RECURSIVE bisect_left(_, _, _, _, _)
bisect_left(f, s, pivot, l, r) ==
    IF l >= r THEN l
    ELSE LET p == l + ((r - l) \div 2)
         IN  IF cmp(f, pivot, s[p + 1]) <= 0
             THEN bisect_left(f, s, pivot, l, p)
             ELSE bisect_left(f, s, pivot, p + 1, r)

\* sorted(rows, cmp=...): list.sort on a list shorter than 64 is a binary
\* insertion sort; the pivot goes after every element it is not less than.
RECURSIVE bisect(_, _, _, _, _)
bisect(f, s, pivot, l, r) ==
    IF l >= r THEN l
    ELSE LET p == l + ((r - l) \div 2)
         IN  IF cmp(f, pivot, s[p + 1]) < 0
             THEN bisect(f, s, pivot, l, p)
             ELSE bisect(f, s, pivot, p + 1, r)

RECURSIVE binarysort(_, _, _)
binarysort(f, s, start) ==
    IF start > Len(s) THEN s
    ELSE LET pivot == s[start]
             l == bisect(f, s, pivot, 0, start - 1)
         IN  binarysort(f,
                 SubSeq(s, 1, l) \o <<pivot>> \o SubSeq(s, l + 1, start - 1)
                     \o SubSeq(s, start + 1, Len(s)),
                 start + 1)

sorted(f, rows) == binarysort(f, rows, 2)

\* ------------------------------------------------------------------ inputs
\* Source paths: "a", "ab" and "b" are files on disk, "c" is not.
FileA == <<97>>
FileAB == <<97, 98>>
FileB == <<98>>
FileGone == <<99>>
SourceFiles == {FileA, FileAB, FileB}

\* The csv header row: column names, no issue.
HeaderRow ==
    [ kind |-> "kind", type |-> "type", qualifier |-> 0,
      line |-> <<108, 105, 110, 101>>, filename |-> <<102, 105, 108, 101>>,
      qualifier_tags |-> XmlMalformed ]

CsvRow(kind, type, qualifier, line, filename, qualifier_tags) ==
    [ kind |-> kind, type |-> type, qualifier |-> qualifier, line |-> line,
      filename |-> filename, qualifier_tags |-> qualifier_tags ]

JsonRow(kind, bug_type, qualifier, line, file, qualifier_tags) ==
    [ kind |-> kind, bug_type |-> bug_type, qualifier |-> qualifier,
      line |-> line, file |-> file, qualifier_tags |-> qualifier_tags ]

\* The decimal text of a line number, as the csv column holds it.
LineText(n) == IF n < 10 THEN <<48 + n>> ELSE <<48 + (n \div 10), 48 + (n % 10)>>

\* Ordering family: accepted rows that differ in (filename, line); the
\* qualifier column tells rows with the same key apart.
OrderKeys == (SourceFiles \X {2, 10}) \cup {<<FileGone, 2>>}
OrderBodies(f) ==
    UNION { { [i \in 1..n |->
                 IF f = "csv"
                 THEN CsvRow("ERROR", "MEMORY_LEAK", i, LineText(k[i][2]),
                             k[i][1], XmlMalformed)
                 ELSE JsonRow("ERROR", "MEMORY_LEAK", i, k[i][2], k[i][1], <<>>)]
              : k \in [1..n -> OrderKeys] } : n \in 0..MaxRows }

\* Policy family: rows that differ in kind, type, bucket and file existence.
PolicyKinds == {"ERROR", "WARNING", "INFO"}
PolicyTypes == {"", "NULL_DEREFERENCE", "MEMORY_LEAK", "CHECKERS_PRINTF_ARGS"}
CsvTags ==
    { XmlMalformed,
      XmlElement(QUALIFIER_TAGS, <<XmlChild(BUCKET_TAGS, "B1")>>),
      XmlElement(QUALIFIER_TAGS, <<XmlChild(BUCKET_TAGS, "B5")>>) }
JsonTags ==
    { <<>>,
      <<[tag |-> BUCKET_TAGS, value |-> "B1"]>>,
      <<[tag |-> BUCKET_TAGS, value |-> "B5"]>> }
PolicyCells(f) ==
    PolicyKinds \X PolicyTypes \X (IF f = "csv" THEN CsvTags ELSE JsonTags)
        \X {FileA, FileGone}
PolicyBodies(f) ==
    UNION { { [i \in 1..n |->
                 IF f = "csv"
                 THEN CsvRow(c[i][1], c[i][2], i, LineText(2), c[i][4], c[i][3])
                 ELSE JsonRow(c[i][1], c[i][2], i, 2, c[i][4], c[i][3])]
              : c \in [1..n -> PolicyCells(f)] } : n \in 0..MaxPolicyRows }

\* The report files handed to clean_csv (an empty file, or a header and a
\* body) and to clean_json (a list of objects).
Reports(f) ==
    IF f = "csv"
    THEN {<<>>} \cup { <<HeaderRow>> \o b : b \in OrderBodies(f) \cup PolicyBodies(f) }
    ELSE OrderBodies(f) \cup PolicyBodies(f)

PipelineAnalyzers == {ANALYZER_INFER, ANALYZER_CHECKERS}
NoArgs == [analyzer |-> "", no_filtering |-> FALSE]
NoCall == [fn |-> "", analyzer |-> "", kind |-> "", type |-> "", bucket |-> "",
           exc |-> "none", val |-> FALSE]

Idle ==
    /\ disk = SourceFiles
    /\ args = NoArgs
    /\ pc = "idle"
    /\ collected_rows = <<>>
    /\ tmp = NoFile
    /\ ret = NotReturned
    /\ text_errors_list = <<>>
    /\ bugs_out = NoFile
    /\ stdout = <<>>
    /\ call = NoCall

Init ==
    /\ fmt \in {"csv", "json"}
    /\ report \in Reports(fmt)
    /\ orig = report
    /\ Idle

\* --------------------------------------------------- clean_csv, clean_json
\* The rows the for loop of clean_csv appends to collected_rows.
RECURSIVE csv_collect(_, _)
csv_collect(a, rows) ==
    IF rows = <<>> THEN <<>>
    ELSE LET row == Head(rows)
             filename == row.filename
         IN  IF os_path_isfile(filename)
                  /\ (a.no_filtering \/ _should_report_csv(a.analyzer, row).val)
             THEN <<row>> \o csv_collect(a, Tail(rows))
             ELSE csv_collect(a, Tail(rows))

\* Whether a _should_report_csv call of that loop raises.
csv_collect_raises(a, rows) ==
    \E i \in DOMAIN rows :
        /\ os_path_isfile(rows[i].filename)
        /\ ~a.no_filtering
        /\ _should_report_csv(a.analyzer, rows[i]).exc # "none"

\* A mutated loop: no_filtering is not consulted.
RECURSIVE json_collect_always_filtering(_, _)
json_collect_always_filtering(a, rows) ==
    IF rows = <<>> THEN <<>>
    ELSE LET row == Head(rows)
         IN  IF os_path_isfile(row.file) /\ _should_report_json(a.analyzer, row)
             THEN <<row>> \o json_collect_always_filtering(a, Tail(rows))
             ELSE json_collect_always_filtering(a, Tail(rows))

RECURSIVE json_collect(_, _)
json_collect(a, rows) ==
    IF rows = <<>> THEN <<>>
    ELSE LET row == Head(rows)
             filename == row.file
         IN  IF os_path_isfile(filename)
                  /\ (a.no_filtering \/ _should_report_json(a.analyzer, row))
             THEN <<row>> \o json_collect(a, Tail(rows))
             ELSE json_collect(a, Tail(rows))

\* A mutated loop: it runs over every row, the header included.
csv_collected_rows_header_filtered(a, rows) ==
    sorted("csv", csv_collect(a, rows))

\* Lines 105-114: the header, then the sorted survivors of rows[1:].
csv_collected_rows(a, rows) ==
    <<rows[1]>> \o sorted("csv", csv_collect(a, Tail(rows)))

\* Lines 127-135: the sorted survivors.
json_collected_rows(a, rows) == sorted("json", json_collect(a, rows))

\* The body of "with open(csv_report, 'r')": lines 99-114.
clean_csv_read ==
    /\ pc = "idle" /\ fmt = "csv"
    /\ \E analyzer \in PipelineAnalyzers, no_filtering \in BOOLEAN :
        LET a == [analyzer |-> analyzer, no_filtering |-> no_filtering]
            rows == report
        IN  /\ args' = a
            /\ IF Len(rows) <= 1
               THEN /\ ret' = ReturnRows(rows)
                    /\ pc' = "returned"
                    /\ UNCHANGED collected_rows
               ELSE IF csv_collect_raises(a, Tail(rows))
               THEN /\ pc' = "failed"
                    /\ UNCHANGED <<ret, collected_rows>>
               ELSE /\ collected_rows' = csv_collected_rows(a, rows)
                    /\ pc' = "filtered"
                    /\ UNCHANGED ret
    /\ UNCHANGED <<disk, fmt, orig, report, tmp, text_errors_list, bugs_out,
                   stdout, call>>

\* The body of "with open(json_report, 'r')": lines 125-135.
clean_json_read ==
    /\ pc = "idle" /\ fmt = "json"
    /\ \E analyzer \in PipelineAnalyzers, no_filtering \in BOOLEAN :
        LET a == [analyzer |-> analyzer, no_filtering |-> no_filtering]
            rows == report
        IN  /\ args' = a
            /\ collected_rows' = json_collected_rows(a, rows)
            /\ pc' = "filtered"
    /\ UNCHANGED <<disk, fmt, orig, report, tmp, ret, text_errors_list,
                   bugs_out, stdout, call>>

\* A mutated open: the report itself is opened for writing.
OpenTemp_in_place(f) ==
    /\ pc = "filtered" /\ fmt = f
    /\ tmp' = File(<<>>)
    /\ report' = <<>>
    /\ pc' = "opened"
    /\ UNCHANGED <<disk, fmt, orig, args, collected_rows, ret,
                   text_errors_list, bugs_out, stdout, call>>

\* tempfile.mktemp() and open(temporary_file, 'w'): a new, empty file.
OpenTemp(f) ==
    /\ pc = "filtered" /\ fmt = f
    /\ tmp' = File(<<>>)
    /\ pc' = "opened"
    /\ UNCHANGED <<disk, fmt, orig, report, args, collected_rows, ret,
                   text_errors_list, bugs_out, stdout, call>>

\* writer.writerows / json.dump: the next row reaches the temporary file.
WriteTemp(f) ==
    /\ pc = "opened" /\ fmt = f
    /\ Len(tmp.content) < Len(collected_rows)
    /\ tmp' = File(Append(tmp.content, collected_rows[Len(tmp.content) + 1]))
    /\ UNCHANGED <<disk, fmt, orig, report, args, pc, collected_rows, ret,
                   text_errors_list, bugs_out, stdout, call>>

\* file_out.flush(), after everything was written.
FlushTemp(f) ==
    /\ pc = "opened" /\ fmt = f
    /\ Len(tmp.content) = Len(collected_rows)
    /\ pc' = "flushed"
    /\ UNCHANGED <<disk, fmt, orig, report, args, collected_rows, tmp, ret,
                   text_errors_list, bugs_out, stdout, call>>

\* open, a write or flush raises IOError: the call ends, nothing is undone.
RaiseBeforeMove(f) ==
    /\ pc \in {"filtered", "opened"} /\ fmt = f
    /\ pc' = "failed"
    /\ UNCHANGED <<disk, fmt, orig, report, args, collected_rows, tmp, ret,
                   text_errors_list, bugs_out, stdout, call>>

\* shutil.move, same file system: os.rename replaces the report at once.
MoveRename(f) ==
    /\ pc = "flushed" /\ fmt = f
    /\ report' = tmp.content
    /\ tmp' = NoFile
    /\ ret' = ReturnNone
    /\ pc' = "done"
    /\ UNCHANGED <<disk, fmt, orig, args, collected_rows, text_errors_list,
                   bugs_out, stdout, call>>

\* shutil.move, across file systems: the report is opened for writing
\* (truncated), the rows are copied, the temporary file is unlinked.
MoveCopyOpen(f) ==
    /\ pc = "flushed" /\ fmt = f
    /\ report' = <<>>
    /\ pc' = "copying"
    /\ UNCHANGED <<disk, fmt, orig, args, collected_rows, tmp, ret,
                   text_errors_list, bugs_out, stdout, call>>

MoveCopyRow(f) ==
    /\ pc = "copying" /\ fmt = f
    /\ Len(report) < Len(tmp.content)
    /\ report' = Append(report, tmp.content[Len(report) + 1])
    /\ UNCHANGED <<disk, fmt, orig, args, pc, collected_rows, tmp, ret,
                   text_errors_list, bugs_out, stdout, call>>

MoveCopyUnlink(f) ==
    /\ pc = "copying" /\ fmt = f
    /\ Len(report) = Len(tmp.content)
    /\ tmp' = NoFile
    /\ ret' = ReturnNone
    /\ pc' = "done"
    /\ UNCHANGED <<disk, fmt, orig, report, args, collected_rows,
                   text_errors_list, bugs_out, stdout, call>>

\* shutil.move raises (the rename and the copy fail, or the copy stops).
RaiseInMove(f) ==
    /\ pc \in {"flushed", "copying"} /\ fmt = f
    /\ pc' = "move_failed"
    /\ UNCHANGED <<disk, fmt, orig, report, args, collected_rows, tmp, ret,
                   text_errors_list, bugs_out, stdout, call>>

clean_csv_open == OpenTemp("csv")
clean_csv_write == WriteTemp("csv")
clean_csv_flush == FlushTemp("csv")
clean_csv_raise == RaiseBeforeMove("csv")
clean_csv_move_rename == MoveRename("csv")
clean_csv_move_copy_open == MoveCopyOpen("csv")
clean_csv_move_copy_row == MoveCopyRow("csv")
clean_csv_move_copy_unlink == MoveCopyUnlink("csv")
clean_csv_move_raise == RaiseInMove("csv")

clean_json_open == OpenTemp("json")
clean_json_write == WriteTemp("json")
clean_json_flush == FlushTemp("json")
clean_json_raise == RaiseBeforeMove("json")
clean_json_move_rename == MoveRename("json")
clean_json_move_copy_open == MoveCopyOpen("json")
clean_json_move_copy_row == MoveCopyRow("json")
clean_json_move_copy_unlink == MoveCopyUnlink("json")
clean_json_move_raise == RaiseInMove("json")

clean_csv ==
    \/ clean_csv_read
    \/ clean_csv_open
    \/ clean_csv_write
    \/ clean_csv_flush
    \/ clean_csv_raise
    \/ clean_csv_move_rename
    \/ clean_csv_move_copy_open
    \/ clean_csv_move_copy_row
    \/ clean_csv_move_copy_unlink
    \/ clean_csv_move_raise

clean_json ==
    \/ clean_json_read
    \/ clean_json_open
    \/ clean_json_write
    \/ clean_json_flush
    \/ clean_json_raise
    \/ clean_json_move_rename
    \/ clean_json_move_copy_open
    \/ clean_json_move_copy_row
    \/ clean_json_move_copy_unlink
    \/ clean_json_move_raise

Next == clean_csv \/ clean_json

Spec == Init /\ [][Next]_vars

\* ---------------------------------------------------- print_and_save_errors
\* A text is the sequence of its pieces; NL is the line break '\n'.
NL == [nl |-> TRUE]
Text(s) == [text |-> s]

\* utils.get_plural(_str, count): '1 issue', '2 issues'.
get_plural(str, count) ==
    [count |-> count, noun |-> IF count = 1 THEN str ELSE str \o "s"]

\* source.build_source_context(filename, formatter, line) pushed through a
\* source.Indenter: the snippet of that place, indented one level.
source_context(filename, line) ==
    [snippet_of |-> filename, at |-> line, indent |-> 1]

\* u'%s:%d: %s: %s\n  %s\n%s' % (filename, line, kind.lower(), error_type,
\* msg, source_context)
text_error(row) ==
    << [filename |-> row.file, line |-> row.line, kind |-> lower(row.kind),
        type |-> row.bug_type],
       NL, [indent |-> 2, msg |-> row.qualifier],
       NL, source_context(row.file, row.line) >>

\* A mutated kind filter: warnings are not selected.
is_error_kind_only_errors(row) == In(row.kind, <<ISSUE_KIND_ERROR>>)

\* The lambda of the filter call: kind in [ERROR, WARNING].
is_error_kind(row) == In(row.kind, <<ISSUE_KIND_ERROR, ISSUE_KIND_WARNING>>)

\* The for loop over errors: one rendered text per row with a file on disk.
RECURSIVE render_errors(_)
render_errors(rows) ==
    IF rows = <<>> THEN <<>>
    ELSE LET row == Head(rows)
         IN  IF ~is_error_kind(row) THEN render_errors(Tail(rows))
             ELSE IF ~os_path_isfile(row.file) THEN render_errors(Tail(rows))
             ELSE <<text_error(row)>> \o render_errors(Tail(rows))

\* '\n\n'.join(list)
RECURSIVE join_blank_line(_)
join_blank_line(list) ==
    IF list = <<>> THEN <<>>
    ELSE IF Len(list) = 1 THEN list[1]
    ELSE list[1] \o <<NL, NL>> \o join_blank_line(Tail(list))

\* print(message) and file_out.write(message + '\n') of _print_and_write.
print(out, message) == out \o message \o <<NL>>
file_write(content, message) == content \o message \o <<NL>>

_print_and_write(message) ==
    /\ stdout' = print(stdout, message)
    /\ bugs_out' = File(file_write(bugs_out.content, message))

\* Lines 144-174: the report is read, the texts are rendered.
print_read ==
    /\ pc = "idle" /\ fmt = "json" /\ ~bugs_out.exists
    /\ text_errors_list' = render_errors(report)
    /\ pc' = "rendered"
    /\ UNCHANGED <<disk, fmt, orig, report, args, collected_rows, tmp, ret,
                   bugs_out, stdout, call>>

\* Line 177: codecs.open(bugs_out, 'w').
print_open ==
    /\ pc = "rendered"
    /\ bugs_out' = File(<<>>)
    /\ pc' = "out_opened"
    /\ UNCHANGED <<disk, fmt, orig, report, args, collected_rows, tmp, ret,
                   text_errors_list, stdout, call>>

\* Lines 178-182: the first _print_and_write.
print_summary ==
    /\ pc = "out_opened"
    /\ LET n_issues == Len(text_errors_list)
       IN  IF n_issues = 0
           THEN /\ _print_and_write(<<Text("No issues found")>>)
                /\ pc' = "idle"
           ELSE /\ _print_and_write(
                       <<NL, [found |-> get_plural("issue", n_issues)], NL>>)
                /\ pc' = "summary_written"
    /\ UNCHANGED <<disk, fmt, orig, report, args, collected_rows, tmp, ret,
                   text_errors_list, call>>

\* Lines 183-184: the second _print_and_write.
print_errors ==
    /\ pc = "summary_written"
    /\ _print_and_write(join_blank_line(text_errors_list))
    /\ pc' = "idle"
    /\ UNCHANGED <<disk, fmt, orig, report, args, collected_rows, tmp, ret,
                   text_errors_list, call>>

print_and_save_errors ==
    \/ print_read
    \/ print_open
    \/ print_summary
    \/ print_errors

\* Reporter family: rows that differ in kind, file existence and type.
ReporterCells ==
    ({"ERROR", "WARNING", "INFO"} \X {FileA, FileGone} \X {"MEMORY_LEAK"})
        \cup {<<"ERROR", FileA, "CHECKERS_PRINTF_ARGS">>}
ReporterReports ==
    UNION { { [i \in 1..n |-> JsonRow(c[i][1], c[i][3], i, 2, c[i][2], <<>>)]
              : c \in [1..n -> ReporterCells] } : n \in 0..MaxRows }

InitReporter ==
    /\ fmt = "json"
    /\ report \in ReporterReports
    /\ orig = report
    /\ Idle

NextReporter == print_and_save_errors \/ clean_json

SpecReporter == InitReporter /\ [][NextReporter]_vars

\* ------------------------------------------------- the policy, called alone
Analyzers ==
    { ANALYZER_INFER, ANALYZER_ERADICATE, ANALYZER_CHECKERS, ANALYZER_TRACING,
      ANALYZER_CAPTURE }
Kinds == {ISSUE_KIND_ERROR, ISSUE_KIND_WARNING, ISSUE_KIND_INFO}
Types ==
    { ISSUE_TYPES[i] : i \in DOMAIN ISSUE_TYPES } \cup {"", "CHECKERS_PRINTF_ARGS"}
Buckets == {"", "B1", "B2", "B5", None}

\* qualifier_tags columns: not XML, no bucket, a bucket, an empty bucket
\* element, another root, another child before the bucket.
XmlTexts ==
    CsvTags \cup
    { XmlElement(QUALIFIER_TAGS, <<>>),
      XmlElement(QUALIFIER_TAGS, <<XmlChild(BUCKET_TAGS, "B2")>>),
      XmlElement(QUALIFIER_TAGS, <<XmlChild(BUCKET_TAGS, None)>>),
      XmlElement("tags", <<XmlChild(BUCKET_TAGS, "B1")>>),
      XmlElement(QUALIFIER_TAGS,
                 <<XmlChild("call_line", "7"), XmlChild(BUCKET_TAGS, "B2")>>),
      XmlElement(QUALIFIER_TAGS, <<XmlChild("call_line", "7")>>) }
TagLists ==
    JsonTags \cup
    { <<[tag |-> BUCKET_TAGS, value |-> "B2"]>>,
      <<[tag |-> "call_line", value |-> "7"],
        [tag |-> BUCKET_TAGS, value |-> "B1"]>>,
      <<[tag |-> "call_line", value |-> "7"]>>,
      <<[tag |-> BUCKET_TAGS, value |-> "B5"],
        [tag |-> BUCKET_TAGS, value |-> "B1"]>> }

call_should_report ==
    /\ pc = "idle" /\ call = NoCall
    /\ \E analyzer \in Analyzers, kind \in Kinds, type \in Types,
          bucket \in Buckets :
        call' = [ fn |-> "_should_report", analyzer |-> analyzer,
                  kind |-> kind, type |-> type, bucket |-> bucket,
                  exc |-> "none",
                  val |-> _should_report(analyzer, kind, type, bucket) ]
    /\ UNCHANGED <<disk, fmt, orig, report, args, pc, collected_rows, tmp,
                   ret, text_errors_list, bugs_out, stdout>>

call_should_report_csv ==
    /\ pc = "idle" /\ call = NoCall
    /\ \E analyzer \in Analyzers, kind \in Kinds, type \in Types,
          text \in XmlTexts :
        LET row == CsvRow(kind, type, 1, LineText(2), FileA, text)
            out == _should_report_csv(analyzer, row)
        IN  call' = [ fn |-> "_should_report_csv", analyzer |-> analyzer,
                      kind |-> kind, type |-> type, row |-> row,
                      exc |-> out.exc, val |-> out.val ]
    /\ UNCHANGED <<disk, fmt, orig, report, args, pc, collected_rows, tmp,
                   ret, text_errors_list, bugs_out, stdout>>

call_should_report_json ==
    /\ pc = "idle" /\ call = NoCall
    /\ \E analyzer \in Analyzers, kind \in Kinds, type \in Types,
          tags \in TagLists :
        LET row == JsonRow(kind, type, 1, 2, FileA, tags)
        IN  call' = [ fn |-> "_should_report_json", analyzer |-> analyzer,
                      kind |-> kind, type |-> type, row |-> row,
                      exc |-> "none",
                      val |-> _should_report_json(analyzer, row) ]
    /\ UNCHANGED <<disk, fmt, orig, report, args, pc, collected_rows, tmp,
                   ret, text_errors_list, bugs_out, stdout>>

InitPolicy ==
    /\ fmt = "json"
    /\ report = <<>>
    /\ orig = report
    /\ Idle

NextPolicy ==
    \/ call_should_report
    \/ call_should_report_csv
    \/ call_should_report_json

SpecPolicy == InitPolicy /\ [][NextPolicy]_vars

\* ================================================================== claims
Whitelisted(analyzer) ==
    analyzer \in {ANALYZER_ERADICATE, ANALYZER_CHECKERS, ANALYZER_TRACING}
ErrorOrWarning(kind) == kind \in {"ERROR", "WARNING"}
NullStyle(type) == In(type, NULL_STYLE_ISSUE_TYPES)
DesignatedBucket(bucket) == bucket \in {"B1", "B2"}

\* C1: _should_report returns the result of the five ordered rules: true for
\* a whitelisted analyzer; otherwise false for a kind other than ERROR and
\* WARNING; otherwise false for an empty type; otherwise, for a null-style
\* type, true exactly when the bucket is B1 or B2; otherwise true exactly
\* when the type is in ISSUE_TYPES.
C1_FiveOrderedRules ==
    call.fn = "_should_report" =>
        /\ call.exc = "none"
        /\ Whitelisted(call.analyzer) => call.val
        /\ (~Whitelisted(call.analyzer) /\ ~ErrorOrWarning(call.kind))
               => ~call.val
        /\ (~Whitelisted(call.analyzer) /\ ErrorOrWarning(call.kind)
                /\ call.type = "")
               => ~call.val
        /\ (~Whitelisted(call.analyzer) /\ ErrorOrWarning(call.kind)
                /\ call.type # "" /\ NullStyle(call.type))
               => (call.val <=> DesignatedBucket(call.bucket))
        /\ (~Whitelisted(call.analyzer) /\ ErrorOrWarning(call.kind)
                /\ call.type # "" /\ ~NullStyle(call.type))
               => (call.val <=> In(call.type, ISSUE_TYPES))

\* A null-style warning with bucket B2 was accepted under a plain analyzer.
C1_Witness ==
    /\ call.fn = "_should_report"
    /\ call.analyzer = ANALYZER_INFER /\ call.kind = "WARNING"
    /\ call.type = "NULL_DEREFERENCE" /\ call.bucket = "B2"
    /\ call.val

\* The qualifier_tags column of the row of a _should_report_csv call yields
\* no bucket: it is not XML, or its root is not qualifier_tags, or the root
\* has no bucket child.
NoBucketInColumn(text) ==
    \/ ~text.wf
    \/ text.tag # "qualifier_tags"
    \/ \A i \in DOMAIN text.children : text.children[i].tag # "bucket"

\* C7: for a row whose qualifier_tags column is not a tag tree, or has
\* another root than qualifier_tags, or has no bucket child,
\* _should_report_csv raises nothing and decides as _should_report does
\* with the empty bucket.
C7_MalformedTagsAsEmptyBucket ==
    (call.fn = "_should_report_csv" /\ NoBucketInColumn(call.row.qualifier_tags))
        => /\ call.exc = "none"
           /\ call.val = _should_report(call.analyzer, call.kind, call.type, "")

\* A null-style error whose bucket B1 sits under another root was rejected.
C7_Witness ==
    /\ call.fn = "_should_report_csv"
    /\ call.row.qualifier_tags.wf
    /\ call.row.qualifier_tags.tag = "tags"
    /\ call.analyzer = ANALYZER_INFER /\ call.kind = "ERROR"
    /\ call.type = "NULL_DEREFERENCE"
    /\ call.exc = "none" /\ ~call.val

\* ---- the pipelines
\* The issue rows of a report file: all of them but the csv header.
Issues(rows) == IF fmt = "csv" /\ rows # <<>> THEN Tail(rows) ELSE rows
Rows(seq) == { seq[i] : i \in DOMAIN seq }
FileOf(row) == IF fmt = "csv" THEN row.filename ELSE row.file
LineOf(row) == IF fmt = "csv" THEN int(row.line) ELSE row.line
TypeOf(row) == IF fmt = "csv" THEN row.type ELSE row.bug_type
ExtractedBucket(row) ==
    IF fmt = "csv" THEN csv_bucket(row).val ELSE json_bucket(row.qualifier_tags)
OnDisk(row) == FileOf(row) \in disk
\* The call has ended normally: the report file is its output.
Finished == pc \in {"done", "returned"}
Kept(row) == row \in Rows(Issues(report))

\* C2: an issue whose file is not on disk is never in the output of
\* clean_csv or clean_json, whatever no_filtering and the analyzer are; the
\* csv header row is not an issue.
C2_FilenameGate ==
    Finished => \A row \in Rows(Issues(report)) : OnDisk(row)

\* A run without filtering under a whitelisted analyzer dropped the row
\* whose file is missing and kept another one.
C2_Witness ==
    /\ pc = "done"
    /\ args.no_filtering /\ Whitelisted(args.analyzer)
    /\ \E row \in Rows(Issues(orig)) : ~OnDisk(row) /\ ~Kept(row)
    /\ \E row \in Rows(Issues(orig)) : Kept(row)

\* C3, as claimed: under an analyzer that is not whitelisted and with
\* no_filtering false, a null-style issue with a file on disk is kept if and
\* only if its extracted bucket is B1 or B2, for every issue kind.
C3_NullStyleGatingEveryKind ==
    (pc = "done" /\ ~Whitelisted(args.analyzer) /\ ~args.no_filtering)
        => \A row \in Rows(Issues(orig)) :
               (NullStyle(TypeOf(row)) /\ OnDisk(row))
                   => (Kept(row) <=> DesignatedBucket(ExtractedBucket(row)))

\* C3, amended: such an issue is kept if and only if its kind is ERROR or
\* WARNING and its extracted bucket is B1 or B2.
C3_NullStyleGating ==
    (pc = "done" /\ ~Whitelisted(args.analyzer) /\ ~args.no_filtering)
        => \A row \in Rows(Issues(orig)) :
               (NullStyle(TypeOf(row)) /\ OnDisk(row))
                   => (Kept(row) <=> (/\ ErrorOrWarning(row.kind)
                                      /\ DesignatedBucket(ExtractedBucket(row))))

\* A null-style error in bucket B1, its file on disk, was kept.
C3_Witness ==
    /\ pc = "done" /\ ~Whitelisted(args.analyzer) /\ ~args.no_filtering
    /\ \E row \in Rows(Issues(orig)) :
           /\ NullStyle(TypeOf(row)) /\ OnDisk(row)
           /\ row.kind = "ERROR" /\ ExtractedBucket(row) = "B1"
           /\ Kept(row)

\* C4: until the replace the report file keeps its original content, also
\* when opening, writing or flushing the temporary file fails; the replace
\* starts only when the temporary file holds the full content, and a
\* finished call leaves exactly that content in the report.
C4_OriginalKeptUntilReplace ==
    /\ pc \in {"idle", "filtered", "opened", "flushed", "failed", "returned"}
           => report = orig
    /\ pc \in {"flushed", "copying"} => tmp = File(collected_rows)
    /\ pc = "done" => report = collected_rows

\* A write failed half way: the temporary file is partial, the report is
\* the original and differs from what was being written.
C4_Witness ==
    /\ pc = "failed"
    /\ tmp.exists
    /\ 0 < Len(tmp.content) /\ Len(tmp.content) < Len(collected_rows)
    /\ report = orig
    /\ collected_rows # orig

\* (filename, line) of one row before that of another.
KeyBefore(r1, r2) ==
    \/ str_lt(FileOf(r1), FileOf(r2))
    \/ FileOf(r1) = FileOf(r2) /\ LineOf(r1) < LineOf(r2)
SameKey(r1, r2) == FileOf(r1) = FileOf(r2) /\ LineOf(r1) = LineOf(r2)
\* The place of an issue row in the report handed over.
InputIndex(row) == CHOOSE i \in DOMAIN Issues(orig) : Issues(orig)[i] = row

\* C5: the records written are the survivors in stable (filename, line)
\* order: filename ascending lexicographically, then line ascending
\* numerically, and survivors with the same (filename, line) in their input
\* order; every record written is a row of the input, none is written twice.
C5_StableSort ==
    pc = "done" =>
        LET out == Issues(report)
        IN  /\ Rows(out) \subseteq Rows(Issues(orig))
            /\ \A i, j \in DOMAIN out :
                   i < j => \/ KeyBefore(out[i], out[j])
                            \/ /\ SameKey(out[i], out[j])
                               /\ InputIndex(out[i]) < InputIndex(out[j])

\* Three survivors: the last two of the input share a key and come first,
\* in input order, and line 2 of a file precedes its line 10.
C5_Witness ==
    /\ pc = "done"
    /\ Len(Issues(report)) = 3
    /\ LET out == Issues(report)
       IN  /\ InputIndex(out[1]) = 2 /\ InputIndex(out[2]) = 3
           /\ SameKey(out[1], out[2])
           /\ FileOf(out[3]) = FileOf(out[1])
           /\ LineOf(out[1]) = 2 /\ LineOf(out[3]) = 10

\* C6: with no_filtering true the issues kept are exactly those whose file
\* is on disk; with no_filtering false they are among those, so that for
\* the same report, analyzer and disk the set kept with no_filtering true
\* is a superset of the set kept with it false.
C6_NoFilteringSuperset ==
    Finished =>
        LET kept == Rows(Issues(report))
            on_disk == { row \in Rows(Issues(orig)) : OnDisk(row) }
        IN  /\ args.no_filtering => kept = on_disk
            /\ ~args.no_filtering => kept \subseteq on_disk

\* Without filtering, under a plain analyzer, an INFO issue was kept.
C6_Witness ==
    /\ pc = "done"
    /\ args.no_filtering /\ ~Whitelisted(args.analyzer)
    /\ \E row \in Rows(Issues(orig)) : row.kind = "INFO" /\ Kept(row)

\* C10: for a csv report with at least one row, the first row of the file
\* after clean_csv is the original header row, ahead of the retained rows
\* and untouched by the file check, the policy and the sort, also when
\* every data row is dropped; a report of one row is not rewritten and its
\* rows are returned unchanged.
C10_HeaderPreserved ==
    (fmt = "csv" /\ Len(orig) >= 1) =>
        /\ pc = "done" =>
               /\ Len(orig) > 1
               /\ Len(report) >= 1
               /\ report[1] = orig[1]
               /\ Rows(Tail(report)) \subseteq Rows(Tail(orig))
               /\ ret = ReturnNone
        /\ Len(orig) = 1 => /\ report = orig
                            /\ ~tmp.exists
                            /\ pc \in {"idle", "returned"}
        /\ pc = "returned" => Len(orig) = 1 /\ ret = ReturnRows(orig)

\* Every data row was dropped and the file holds the header alone.
C10_Witness ==
    /\ fmt = "csv" /\ pc = "done"
    /\ Len(orig) > 2
    /\ report = <<orig[1]>>
    /\ ~OnDisk(orig[1])

\* ---- the reporter
\* print_and_save_errors has run to its end (it runs on the report as
\* handed over: clean_json can only follow it).
Printed == bugs_out.exists /\ pc \notin {"out_opened", "summary_written"}
\* The issues the reporter is to select, in input order.
Selected ==
    SelectSeq(orig, LAMBDA row : ErrorOrWarning(row.kind) /\ row.file \in disk)
\* The pieces of a text that are not line breaks, and the three pieces of
\* every rendered block.
NonBlank(out) == SelectSeq(out, LAMBDA t : t # NL)
Locations(out) == SelectSeq(out, LAMBDA t : "filename" \in DOMAIN t)
Messages(out) == SelectSeq(out, LAMBDA t : "msg" \in DOMAIN t)
Snippets(out) == SelectSeq(out, LAMBDA t : "snippet_of" \in DOMAIN t)

Reported(row) ==
    \E i \in DOMAIN Messages(bugs_out.content) :
        Messages(bugs_out.content)[i].msg = row.qualifier

\* C9, as claimed: for every analyzer, the issues the reporter selects
\* include every issue clean_json keeps with no_filtering false.
C9_ReporterSupersetEveryAnalyzer ==
    (Printed /\ pc = "done" /\ ~args.no_filtering)
        => \A row \in Rows(report) : Reported(row)

\* C9, amended: that holds for every analyzer that is not whitelisted.
C9_ReporterSuperset ==
    (Printed /\ pc = "done" /\ ~args.no_filtering
        /\ ~Whitelisted(args.analyzer))
        => \A row \in Rows(report) : Reported(row)

\* Under a plain analyzer clean_json kept an issue, and dropped another one
\* that the reporter had selected.
C9_Witness ==
    /\ Printed /\ pc = "done" /\ ~args.no_filtering
    /\ ~Whitelisted(args.analyzer)
    /\ report # <<>>
    /\ \E row \in Rows(orig) : Reported(row) /\ row \notin Rows(report)
====
